---- MODULE Spec2Model ----
(***************************************************************************)
(* Download queue of the Batocera arcade downloader                       *)
(* (src/arcade_downloader.py, src/interactive.py).                        *)
(*                                                                         *)
(* One DownloadQueue instance, its storage file, the remote session a     *)
(* front end opens for queue processing, and the local temporary files    *)
(* of the local-then-copy strategy.  Strings that the code parses (urls,  *)
(* file names) are sequences of tokens: the delimiters ":", "/", "?",     *)
(* "#", ";" are tokens of their own, every other token is a run of        *)
(* ordinary characters.                                                   *)
(***************************************************************************)
EXTENDS Integers, Sequences, FiniteSets, TLC

(* ------------------------------ bounds -------------------------------- *)

\* Commands run on the appliance in the session specification.
MaxSent == 3

\* The number of add calls in one behaviour.
MaxAdds == 3

(* --------------------------- string helpers --------------------------- *)

\* Index of the first occurrence of token t in s at or after position from,
\* 0 when there is none (str.find, with 1-based positions).
RECURSIVE Find(_, _, _)
Find(s, t, from) ==
    IF from > Len(s) THEN 0
    ELSE IF s[from] = t THEN from
    ELSE Find(s, t, from + 1)

\* Index of the last occurrence of token t in s, 0 when there is none
\* (str.rfind).
RECURSIVE RFindFrom(_, _, _)
RFindFrom(s, t, from) ==
    IF from < 1 THEN 0
    ELSE IF s[from] = t THEN from
    ELSE RFindFrom(s, t, from - 1)

RFind(s, t) == RFindFrom(s, t, Len(s))

Drop(s, n) == SubSeq(s, n + 1, Len(s))
Take(s, n) == SubSeq(s, 1, n)

Delims == {":", "/", "?", "#", ";"}

\* Smallest positive index among the first occurrences of "/", "?", "#"
\* at or after from; Len(s) + 1 when there is none (_splitnetloc).
NetlocEnd(s, from) ==
    LET hits == {Find(s, d, from) : d \in {"/", "?", "#"}} \ {0}
    IN  IF hits = {} THEN Len(s) + 1
        ELSE CHOOSE i \in hits : \A j \in hits : i <= j

\* UrlPath as it would be if the url itself were used instead of its parsed
\* path: the query and the fragment stay in.
UrlPathMissingQuery(url) ==
    LET c  == Find(url, ":", 1)
        u1 == IF c = 2 /\ url[1] \notin Delims THEN Drop(url, c) ELSE url
        u2 == IF Len(u1) >= 2 /\ u1[1] = "/" /\ u1[2] = "/"
              THEN Drop(u1, NetlocEnd(u1, 3) - 1) ELSE u1
    IN  u2

\* urllib.parse.urlparse(url).path: the scheme up to the first ":", a
\* netloc after "//", the fragment after the first "#", the query after
\* the first "?" and the parameters after the first ";" of the last
\* segment are all cut away.
UrlPath(url) ==
    LET c  == Find(url, ":", 1)
        hasScheme == c = 2 /\ url[1] \notin Delims
        u1 == IF hasScheme THEN Drop(url, c) ELSE url
        u2 == IF Len(u1) >= 2 /\ u1[1] = "/" /\ u1[2] = "/"
              THEN Drop(u1, NetlocEnd(u1, 3) - 1) ELSE u1
        h  == Find(u2, "#", 1)
        u3 == IF h > 0 THEN Take(u2, h - 1) ELSE u2
        q  == Find(u3, "?", 1)
        u4 == IF q > 0 THEN Take(u3, q - 1) ELSE u3
        sl == RFind(u4, "/")
        p  == Find(u4, ";", IF sl > 0 THEN sl ELSE 1)
    IN  IF hasScheme /\ p > 0 THEN Take(u4, p - 1) ELSE u4

\* os.path.basename: what follows the last "/".
Basename(p) == Drop(p, RFind(p, "/"))

(* ------------------------------ inputs -------------------------------- *)

\* An optional argument is a set: {} is None, {v} is the value v.
None == {}
Some(v) == {v}

\* Python truthiness of an optional string: None and "" are false.
Truthy(opt) == opt # None /\ opt # Some(<<>>)

\* `opt or other`.
OrElse(opt, other) == IF Truthy(opt) THEN CHOOSE v \in opt : TRUE ELSE other

UrlRom ==
    <<"https", ":", "/", "/", "example.org", "/", "download", "/", "X", "/", "rom.zip">>
UrlQuery ==
    <<"https", ":", "/", "/", "archive.org", "/", "download", "/", "game.7z", "?", "dl=1", "#", "top">>
UrlSlash ==
    <<"https", ":", "/", "/", "archive.org", "/", "download", "/", "set", "/">>

\* The add calls the front ends make: (url, system, filename).
AddInputs ==
    { [url |-> UrlRom,   system |-> "mame", filename |-> None],
      [url |-> UrlQuery, system |-> "fba",  filename |-> Some(<<>>)],
      [url |-> UrlSlash, system |-> "mame", filename |-> Some(<<"custom.zip">>)] }

(* ------------------------------- state -------------------------------- *)

VARIABLES
    queue,            \* DownloadQueue.queue: the in-memory item sequence
    queue_file,       \* the storage file: [exists, doc]
    ssh_client,       \* BatoceraManager.ssh_client of the front end's session
    pc,               \* where the front end is
    pending_items,    \* process_queue: positions in queue of the items selected
    pos,              \* process_queue: position of the loop in pending_items
    direct_download,  \* process_queue: the strategy argument
    tmp_files,        \* the file names present under /tmp
    n_adds,           \* history: the number of add calls so far
    tags,             \* history: per queue item, its add call [id, args]
    file_tags,        \* history: per stored item, its add call
    at_start,         \* history: the queue when process_queue was called
    fetch_failed,     \* history: positions in pending_items whose fetch
                      \* command exited non-zero in this process_queue call
    only_adds,        \* history: no operation but add has changed the queue
    last,             \* history: what the latest transfer attempt did
    lastOp,           \* history: the latest operation
    dispatched,       \* history: ids of the items ever handed to a transfer
    dispatch_seq,     \* history: ids handed to a transfer in this
                      \* process_queue call, in the order of the calls
    call,             \* session calls: the latest call on the session and
                      \* what it did
    sent,             \* session calls: the commands run on the appliance
    ever_connected,   \* session calls: a connect() of the session succeeded
    catalog,          \* catalog calls: the latest request, the response of
                      \* archive.org and what the call returned
    cli_ids           \* shared file: ids of the items added by one-shot
                      \* command-line runs, next to the long-running instance

\* What the queue commands of the front ends never touch.
api_vars == << call, sent, ever_connected, catalog, cli_ids >>

\* What calls on a session or on the catalog alone never touch.
queue_vars == << queue, queue_file, pc, pending_items, pos, direct_download,
                tmp_files, n_adds, tags, file_tags, at_start, fetch_failed,
                only_adds, last, lastOp, dispatched, dispatch_seq >>

vars == << queue, queue_file, ssh_client, pc, pending_items, pos,
           direct_download, tmp_files, n_adds, tags, file_tags, at_start,
           fetch_failed, only_adds, last, lastOp, dispatched, dispatch_seq,
           call, sent, ever_connected, catalog, cli_ids >>

Statuses == {"pending", "completed", "failed"}

(* ---------------------------- persistence ----------------------------- *)

\* json.dump of one item: an object, its members in insertion order.
JsonObject(item) ==
    << <<"url", item.url>>, <<"system", item.system>>,
       <<"filename", item.filename>>, <<"status", item.status>> >>

\* Value of member key of a JSON object.
Member(obj, key) == obj[CHOOSE k \in 1..Len(obj) : obj[k][1] = key][2]

\* json.dump(self.queue): the whole list.
JsonDump(q) == [i \in 1..Len(q) |-> JsonObject(q[i])]

\* A loader that takes every stored item back as still to be processed.
JsonLoadAsPending(doc) ==
    [i \in 1..Len(doc) |->
        [url |-> Member(doc[i], "url"), system |-> Member(doc[i], "system"),
         filename |-> Member(doc[i], "filename"), status |-> "pending"]]

\* json.load: a list of dicts.
JsonLoad(doc) ==
    [i \in 1..Len(doc) |->
        [url |-> Member(doc[i], "url"), system |-> Member(doc[i], "system"),
         filename |-> Member(doc[i], "filename"), status |-> Member(doc[i], "status")]]

\* A save_queue that, inside process_queue's loop, writes the file only
\* after the last item.
save_queue_after_loop(q) ==
    IF pc = "loop" /\ pos < Len(pending_items)
    THEN queue_file
    ELSE [exists |-> TRUE, doc |-> JsonDump(q)]

\* A save_queue that writes only the items still to be processed.
save_queue_pending_only(q) ==
    [exists |-> TRUE,
     doc |-> JsonDump(SelectSeq(q, LAMBDA it : it.status = "pending"))]

\* save_queue: the file is overwritten with the whole queue.
save_queue(q) == [exists |-> TRUE, doc |-> JsonDump(q)]

\* load_queue: the file's list when the file exists, else the empty queue
\* __init__ set.
load_queue(f) == IF f.exists THEN JsonLoad(f.doc) ELSE <<>>

NoFile == [exists |-> FALSE, doc |-> <<>>]

(* --------------------------- remote session --------------------------- *)

\* What the appliance answers to one remote command: an exit status, or
\* the connection breaks and exec_command raises.
ExitCodes == {0, 1}
Exited(c) == [ran |-> TRUE, raised |-> FALSE, code |-> c, error |-> "none"]
Raised    == [ran |-> TRUE, raised |-> TRUE, code |-> -1, error |-> "SSHException"]
NotRun    == [ran |-> FALSE, raised |-> FALSE, code |-> -1, error |-> "none"]
\* The guard of execute_command (lines 75-76).
NotConnected ==
    [ran |-> FALSE, raised |-> TRUE, code |-> -1, error |-> "ConnectionError"]
ExecOutcomes == {Raised} \cup {Exited(c) : c \in ExitCodes}

\* What the catalog download does: the file is written whole, or the
\* download fails before the file is opened, or after part of it is written,
\* or every chunk arrives and the progress bar raises on an update (line
\* 281, inside the try block, after the chunk is written).
DownloadOutcomes == {"ok", "failed_no_file", "failed_partial", "progress_failed"}

\* What scp.put does: the copy is made, or fails, or the appliance takes the
\* data and the progress callback (lines 123-129) raises inside put.
CopyOutcomes == {"ok", "failed", "progress_failed"}

\* connect (lines 42-57): ssh_client is set to a new SSHClient at line 45,
\* before the connection is tried; a failure is caught and leaves it there.
\* ok is whether the appliance accepts the connection.
connect(ok) ==
    [result |-> ok, client |-> IF ok THEN "connected" ELSE "unconnected"]

\* disconnect without the guard of line 61.
disconnect_unguarded(client) ==
    [raised |-> client = "None",
     client |-> IF client = "None" THEN "None" ELSE "closed"]

\* disconnect (lines 59-63): close() on the client when there is one; the
\* attribute keeps the closed client.
disconnect(client) ==
    [raised |-> FALSE,
     client |-> IF client = "None" THEN "None" ELSE "closed"]

\* execute_command: ConnectionError without a client; with a connected
\* client the command runs on the appliance and env is what comes back;
\* with a client that is not connected (connect failed, or closed)
\* exec_command itself raises.
execute_command(client, env) ==
    IF client = "None" THEN NotConnected
    ELSE IF client = "connected" THEN env
    ELSE Raised

\* The front end that goes on to process_queue whatever connect returned.
after_connect_unchecked(ok) == "connected"

\* What the front ends do with connect's result (line 486 of main, lines
\* 271-275 of InteractiveMenu.process_queue).
after_connect(ok) == IF ok THEN "connected" ELSE "connect_failed"

\* create_directory: mkdir -p through execute_command; the exit status is
\* only printed.  The result says whether the call raised.
create_directory(client, env) == execute_command(client, env)

\* download_to_batocera with a failed directory creation treated as fatal
\* for the item.
download_to_batocera_mkdir_checked(client, mkdirEnv, fetchEnv) ==
    LET mk == create_directory(client, mkdirEnv)
        ft == IF mk.raised THEN NotRun ELSE execute_command(client, fetchEnv)
    IN  [raised |-> mk.raised \/ ft.raised,
         success |-> ~mk.raised /\ ~ft.raised /\ mk.code = 0 /\ ft.code = 0,
         mkdir |-> mk, fetch |-> ft]

\* download_to_batocera: create_directory, then wget; True exactly when
\* wget's exit status is 0.
download_to_batocera(client, mkdirEnv, fetchEnv) ==
    LET mk == create_directory(client, mkdirEnv)
        ft == IF mk.raised THEN NotRun ELSE execute_command(client, fetchEnv)
    IN  [raised |-> mk.raised \/ ft.raised,
         success |-> ~mk.raised /\ ~ft.raised /\ ft.code = 0,
         mkdir |-> mk, fetch |-> ft]

\* ArchiveOrgSearch.download_file: every exception is caught; True when the
\* file was written whole.  files is /tmp afterwards.
download_file(name, files, env) ==
    [success |-> env = "ok",
     files |-> IF env = "failed_no_file" THEN files ELSE files \cup {name}]

\* transfer_file: ConnectionError without a client; a failing copy is
\* caught and printed, nothing is returned.
transfer_file(client, env) ==
    [raised |-> client = "None",
     copy |-> IF client = "None" THEN "not_run" ELSE env]

\* A local-then-copy that makes the remote directory before it looks at
\* the result of the local download.
local_then_copy_mkdir_first(client, name, files, dlEnv, mkdirEnv, copyEnv) ==
    LET dl == download_file(name, files, dlEnv)
        mk == create_directory(client, mkdirEnv)
        tr == IF dl.success /\ ~mk.raised THEN transfer_file(client, copyEnv)
              ELSE [raised |-> FALSE, copy |-> "not_run"]
        ended == dl.success /\ ~mk.raised /\ ~tr.raised
    IN  [raised |-> mk.raised \/ tr.raised,
         success |-> ended,
         files |-> IF ended THEN dl.files \ {name} ELSE dl.files,
         download |-> dlEnv, mkdir |-> mk, copy |-> tr.copy]

\* The else branch of process_queue's loop body (lines 370-379).
local_then_copy(client, name, files, dlEnv, mkdirEnv, copyEnv) ==
    LET dl == download_file(name, files, dlEnv)
        mk == IF dl.success THEN create_directory(client, mkdirEnv) ELSE NotRun
        tr == IF dl.success /\ ~mk.raised THEN transfer_file(client, copyEnv)
              ELSE [raised |-> FALSE, copy |-> "not_run"]
        ended == dl.success /\ ~mk.raised /\ ~tr.raised
    IN  [raised |-> mk.raised \/ tr.raised,
         success |-> ended,
         files |-> IF ended THEN dl.files \ {name} ELSE dl.files,
         download |-> dlEnv, mkdir |-> mk, copy |-> tr.copy]

\* Line 381 with the failure branch leaving the item as it was.
status_of_keep_pending(success) == IF success THEN "completed" ELSE "pending"

\* Line 381: 'completed' if success else 'failed'.
status_of(success) == IF success THEN "completed" ELSE "failed"

\* No transfer attempt on record.
NoAttempt ==
    [pos |-> 0, direct |-> TRUE, raised |-> FALSE, success |-> FALSE,
     download |-> "not_run", mkdir |-> NotRun, fetch |-> NotRun,
     copy |-> "not_run"]

(* --------------------------- queue operations ------------------------- *)

\* The item add builds (lines 314-319).
new_item(url, system, filename) ==
    [url |-> url, system |-> system,
     filename |-> OrElse(filename, Basename(UrlPath(url))),
     status |-> "pending"]

\* The elements of s at the positions ps, in the order of ps.
Pick(s, ps) == [k \in 1..Len(ps) |-> s[ps[k]]]

Positions(q) == [i \in 1..Len(q) |-> i]

\* Positions kept by a loop that removes completed items from the list it
\* is iterating over: the item after a removed one is never looked at.
RECURSIVE KeptRemovingInPlace(_, _)
KeptRemovingInPlace(q, i) ==
    IF i > Len(q) THEN <<>>
    ELSE IF q[i].status = "completed"
         THEN (IF i + 1 <= Len(q) THEN <<i + 1>> ELSE <<>>)
              \o KeptRemovingInPlace(q, i + 2)
         ELSE <<i>> \o KeptRemovingInPlace(q, i + 1)

kept_removing_in_place(q) == KeptRemovingInPlace(q, 1)

\* A filter that keeps only what is still to be processed.
kept_pending_only(q) ==
    SelectSeq(Positions(q), LAMBDA i : q[i].status = "pending")

\* Positions the comprehension of line 341 keeps: status != 'completed'.
kept(q) == SelectSeq(Positions(q), LAMBDA i : q[i].status # "completed")

\* clear_completed that also puts the failed items back to pending.
clear_completed_retrying(q) ==
    [k \in 1..Len(kept(q)) |->
        LET it == q[kept(q)[k]]
        IN  [it EXCEPT !.status = IF @ = "failed" THEN "pending" ELSE @]]

\* The queue clear_completed leaves (line 341).
clear_completed(q) == Pick(q, kept(q))

\* A selection that takes every item that is not completed, so that failed
\* items are tried again.
pending_of_not_completed(q) ==
    SelectSeq(Positions(q), LAMBDA i : q[i].status # "completed")

\* A selection that takes the pending items last to first.
pending_of_reversed(q) ==
    LET p == SelectSeq(Positions(q), LAMBDA i : q[i].status = "pending")
    IN  [k \in 1..Len(p) |-> p[Len(p) + 1 - k]]

\* Positions of the pending items, in queue order (line 352).
pending_of(q) == SelectSeq(Positions(q), LAMBDA i : q[i].status = "pending")

(* ------------------------------- actions ------------------------------ *)

\* No call on the session yet.
NoCall == [op |-> "none", ok |-> FALSE, raised |-> FALSE, error |-> "none",
           again |-> FALSE]

\* No call on the catalog yet.
NoCatalogCall ==
    [op |-> "none", request |-> [url |-> <<>>, q |-> <<>>, rows |-> 0],
     response |-> [kind |-> "none", code |-> 0, body |-> <<>>],
     raised |-> FALSE, value |-> <<>>]

Init ==
    /\ queue = <<>>
    /\ queue_file = NoFile
    /\ ssh_client = "None"
    /\ pc = "idle"
    /\ pending_items = <<>>
    /\ pos = 1
    /\ direct_download = TRUE
    /\ tmp_files = {}
    /\ n_adds = 0
    /\ tags = <<>>
    /\ file_tags = <<>>
    /\ at_start = <<>>
    /\ fetch_failed = {}
    /\ only_adds = TRUE
    /\ last = NoAttempt
    /\ lastOp = "init"
    /\ dispatched = {}
    /\ dispatch_seq = <<>>
    /\ call = NoCall
    /\ sent = <<>>
    /\ ever_connected = FALSE
    /\ catalog = NoCatalogCall
    /\ cli_ids = {}

\* DownloadQueue.add (lines 312-322).
Add(in) ==
    /\ pc = "idle"
    /\ n_adds < MaxAdds
    /\ queue' = Append(queue, new_item(in.url, in.system, in.filename))
    /\ queue_file' = save_queue(queue')
    /\ n_adds' = n_adds + 1
    /\ tags' = Append(tags, [id |-> n_adds + 1, args |-> in])
    /\ file_tags' = tags'
    /\ lastOp' = "add"
    /\ UNCHANGED << api_vars, dispatched, dispatch_seq, fetch_failed, only_adds, at_start, ssh_client, pc, pending_items, pos, direct_download,
                    tmp_files, last >>

\* DownloadQueue.list_queue (lines 324-337): prints only.
ListQueue ==
    /\ pc = "idle"
    /\ lastOp' = "list"
    /\ UNCHANGED << api_vars, dispatched, dispatch_seq, fetch_failed, only_adds, at_start, queue, queue_file, ssh_client, pc, pending_items, pos,
                    direct_download, tmp_files, n_adds, tags, file_tags, last >>

\* DownloadQueue.clear_completed (lines 339-342).
ClearCompleted ==
    /\ pc = "idle"
    /\ queue' = clear_completed(queue)
    /\ queue_file' = save_queue(queue')
    /\ tags' = Pick(tags, kept(queue))
    /\ file_tags' = tags'
    /\ only_adds' = FALSE
    /\ lastOp' = IF lastOp \in {"clear", "clear_again"} THEN "clear_again" ELSE "clear"
    /\ UNCHANGED << api_vars, dispatched, dispatch_seq, fetch_failed, at_start, ssh_client, pc, pending_items, pos, direct_download,
                    tmp_files, n_adds, last >>

\* The front end builds a session and connect() succeeds (lines 485-486 of
\* main, lines 265-271 of InteractiveMenu.process_queue; connect: 42-54).
ConnectOk ==
    /\ pc = "idle"
    /\ ssh_client' = connect(TRUE).client
    /\ pc' = after_connect(connect(TRUE).result)
    /\ lastOp' = "connect"
    /\ UNCHANGED << api_vars, dispatched, dispatch_seq, fetch_failed, only_adds, at_start, queue, queue_file, pending_items, pos, direct_download,
                    tmp_files, n_adds, tags, file_tags, last >>

\* connect() fails (lines 55-57): the SSHClient object built at line 45
\* stays in ssh_client, and the front end goes on to its return.
ConnectFail ==
    /\ pc = "idle"
    /\ ssh_client' = connect(FALSE).client
    /\ pc' = after_connect(connect(FALSE).result)
    /\ lastOp' = "connect_failed"
    /\ UNCHANGED << api_vars, dispatched, dispatch_seq, fetch_failed, only_adds, at_start, queue, queue_file, pending_items, pos, direct_download,
                    tmp_files, n_adds, tags, file_tags, last >>

\* The front end returns after the failed connect (line 489 of main,
\* lines 274-277 of InteractiveMenu.process_queue); its session is dropped.
ConnectFailReturn ==
    /\ pc = "connect_failed"
    /\ ssh_client' = "None"
    /\ pc' = "idle"
    /\ lastOp' = "aborted"
    /\ UNCHANGED << api_vars, dispatched, dispatch_seq, fetch_failed, only_adds, at_start, queue, queue_file, pending_items, pos, direct_download,
                    tmp_files, n_adds, tags, file_tags, last >>

\* process_queue up to its loop (lines 352-358).
ProcessQueueBegin(direct) ==
    /\ pc = "connected"
    /\ pending_items' = pending_of(queue)
    /\ pos' = 1
    /\ direct_download' = direct
    /\ at_start' = queue
    /\ fetch_failed' = {}
    /\ dispatch_seq' = <<>>
    /\ pc' = IF pending_items' = <<>> THEN "returned" ELSE "loop"
    /\ last' = NoAttempt
    /\ lastOp' = "begin"
    /\ UNCHANGED << api_vars, dispatched, only_adds, queue, queue_file, ssh_client, tmp_files, n_adds, tags,
                    file_tags >>

\* The end of one iteration of process_queue's loop (lines 381-382): the
\* status update and save_queue, unless the transfer raised, which ends
\* process_queue and the front end with it.
EndOfIteration(raised, success) ==
    LET i == pending_items[pos]
    IN  IF raised
        THEN /\ pc' = "raised"
             /\ lastOp' = "raise"
             /\ UNCHANGED << queue, queue_file, file_tags, pos, only_adds >>
        ELSE /\ queue' = [queue EXCEPT ![i].status = status_of(success)]
             /\ queue_file' = save_queue(queue')
             /\ file_tags' = tags
             /\ pos' = pos + 1
             /\ pc' = IF pos' > Len(pending_items) THEN "returned" ELSE "loop"
             /\ only_adds' = FALSE
             /\ lastOp' = "item"

\* One iteration of the loop with the direct strategy (lines 360-368,
\* 381-382).
ProcessItemDirect(mkdirEnv, fetchEnv) ==
    /\ pc = "loop"
    /\ pos <= Len(pending_items)
    /\ direct_download
    /\ LET d == download_to_batocera(ssh_client, mkdirEnv, fetchEnv)
       IN  /\ last' = [pos |-> pos, direct |-> TRUE,
                       raised |-> d.raised, success |-> d.success,
                       download |-> "not_run", mkdir |-> d.mkdir,
                       fetch |-> d.fetch, copy |-> "not_run"]
           /\ fetch_failed' = IF d.fetch.ran /\ ~d.fetch.raised /\ d.fetch.code # 0
                              THEN fetch_failed \cup {pos} ELSE fetch_failed
           /\ EndOfIteration(d.raised, d.success)
    /\ dispatched' = dispatched \cup {tags[pending_items[pos]].id}
    /\ dispatch_seq' = Append(dispatch_seq, tags[pending_items[pos]].id)
    /\ UNCHANGED << api_vars, at_start, ssh_client, pending_items, direct_download, tmp_files,
                    n_adds, tags >>

\* One iteration of the loop with the local-then-copy strategy (lines
\* 360-362, 369-382).
ProcessItemLocal(dlEnv, mkdirEnv, copyEnv) ==
    /\ pc = "loop"
    /\ pos <= Len(pending_items)
    /\ ~direct_download
    /\ LET it == queue[pending_items[pos]]
           l  == local_then_copy(ssh_client, it.filename, tmp_files,
                                 dlEnv, mkdirEnv, copyEnv)
       IN  /\ tmp_files' = l.files
           /\ last' = [pos |-> pos, direct |-> FALSE,
                       raised |-> l.raised, success |-> l.success,
                       download |-> l.download, mkdir |-> l.mkdir,
                       fetch |-> NotRun, copy |-> l.copy]
           /\ EndOfIteration(l.raised, l.success)
    /\ dispatched' = dispatched \cup {tags[pending_items[pos]].id}
    /\ dispatch_seq' = Append(dispatch_seq, tags[pending_items[pos]].id)
    /\ UNCHANGED << api_vars, fetch_failed, at_start, ssh_client, pending_items, direct_download, n_adds, tags >>

\* process_queue has returned; the front end disconnects (line 488 of
\* main, line 273 of interactive.py; disconnect: 59-63) and returns.
Disconnect ==
    /\ pc = "returned"
    /\ ssh_client' = disconnect(ssh_client).client
    /\ pc' = "idle"
    /\ pending_items' = <<>>
    /\ pos' = 1
    /\ direct_download' = TRUE
    /\ at_start' = <<>>
    /\ fetch_failed' = {}
    /\ dispatch_seq' = <<>>
    /\ last' = NoAttempt
    /\ lastOp' = "disconnect"
    /\ UNCHANGED << api_vars, dispatched, only_adds, queue, queue_file, tmp_files, n_adds, tags, file_tags >>

\* The program is interrupted between two items of process_queue (Ctrl-C:
\* KeyboardInterrupt is caught nowhere in process_queue or main, and ends
\* the interactive menu, interactive.py lines 336-340).
Interrupt ==
    /\ pc = "loop"
    /\ pc' = "interrupted"
    /\ lastOp' = "interrupt"
    /\ UNCHANGED << api_vars, dispatched, dispatch_seq, queue, queue_file,
                    ssh_client, pending_items, pos, direct_download,
                    tmp_files, n_adds, tags, file_tags, at_start,
                    fetch_failed, only_adds, last >>

\* A new run of the program, after the previous one ended, died of the
\* exception or was interrupted: DownloadQueue() loads the storage file
\* (lines 296-305).
Restart ==
    /\ pc \in {"idle", "raised", "interrupted"}
    /\ queue' = load_queue(queue_file)
    /\ tags' = file_tags
    /\ ssh_client' = "None"
    /\ pc' = "idle"
    /\ pending_items' = <<>>
    /\ pos' = 1
    /\ direct_download' = TRUE
    /\ at_start' = <<>>
    /\ fetch_failed' = {}
    /\ dispatch_seq' = <<>>
    /\ last' = NoAttempt
    /\ lastOp' = "restart"
    /\ UNCHANGED << api_vars, dispatched, only_adds, queue_file, tmp_files, n_adds, file_tags >>

\* What the environment does in one transfer.  A step that is not reached
\* (the commands after one that raised, the remote steps after a failed
\* local download) has no outcome of its own: one stands for all.
DirectEnvs ==
    {e \in ExecOutcomes \X ExecOutcomes : e[1].raised => e[2] = Exited(0)}
LocalEnvs ==
    {e \in DownloadOutcomes \X ExecOutcomes \X CopyOutcomes :
        /\ e[1] # "ok" => (e[2] = Exited(0) /\ e[3] = "ok")
        /\ e[2].raised => e[3] = "ok"}

Next ==
    \/ \E in \in AddInputs : Add(in)
    \/ ListQueue
    \/ ClearCompleted
    \/ ConnectOk
    \/ ConnectFail
    \/ ConnectFailReturn
    \/ \E direct \in BOOLEAN : ProcessQueueBegin(direct)
    \/ \E e \in DirectEnvs : ProcessItemDirect(e[1], e[2])
    \/ \E e \in LocalEnvs : ProcessItemLocal(e[1], e[2], e[3])
    \/ Disconnect
    \/ Interrupt
    \/ Restart

Spec == Init /\ [][Next]_vars

(* ------------------------- calls on one session ---------------------- *)

\* The commands the program runs on the appliance: mkdir -p (line 84),
\* wget (line 146), ls (line 99).
Commands == {"mkdir", "wget", "ls"}

\* connect() on the session, in whatever state it is.
SessionConnect(ok) ==
    /\ ssh_client' = connect(ok).client
    /\ ever_connected' = (ever_connected \/ connect(ok).result)
    /\ call' = [op |-> "connect", ok |-> connect(ok).result, raised |-> FALSE,
                error |-> "none", again |-> FALSE]
    /\ UNCHANGED << queue_vars, cli_ids, sent, catalog >>

\* disconnect() on the session, in whatever state it is.
SessionDisconnect ==
    /\ ssh_client' = disconnect(ssh_client).client
    /\ call' = [op |-> "disconnect", ok |-> ~disconnect(ssh_client).raised,
                raised |-> disconnect(ssh_client).raised,
                error |-> IF disconnect(ssh_client).raised
                          THEN "AttributeError" ELSE "none",
                again |-> call.op = "disconnect"]
    /\ UNCHANGED << queue_vars, cli_ids, sent, ever_connected, catalog >>

\* execute_command(cmd) on the session, in whatever state it is. The
\* command has run on the appliance when exec_command took it.
SessionExecute(cmd, env) ==
    /\ Len(sent) < MaxSent
    /\ LET r == execute_command(ssh_client, env) IN
         /\ call' = [op |-> "execute", ok |-> ~r.raised, raised |-> r.raised,
                     error |-> r.error, again |-> FALSE]
         /\ sent' = IF r.raised THEN sent ELSE Append(sent, cmd)
    /\ UNCHANGED << queue_vars, cli_ids, ssh_client, ever_connected, catalog >>

SessionNext ==
    \/ \E ok \in BOOLEAN : SessionConnect(ok)
    \/ SessionDisconnect
    \/ \E cmd \in Commands, env \in ExecOutcomes : SessionExecute(cmd, env)

SessionSpec == Init /\ [][SessionNext]_vars

(* ------------------------- calls on the catalog ----------------------- *)

\* JSON values a response body can decode to.
JsonDict(members) == [type |-> "object", members |-> members, items |-> <<>>]
JsonList(items)   == [type |-> "array", members |-> <<>>, items |-> items]

\* The outcome of an expression evaluated inside a try block.
Value(v) == [raised |-> FALSE, value |-> v]
Throws   == [raised |-> TRUE, value |-> <<>>]

\* v.get(key, default): v must be a dict (a list has no get).
DictGet(v, key, default) ==
    IF v.type # "object" THEN Throws
    ELSE IF \E k \in 1..Len(v.members) : v.members[k][1] = key
         THEN Value(Member(v.members, key))
         ELSE Value(default)

\* What archive.org answers: nothing (the request itself fails), an error
\* status, a body that is not JSON, or a JSON body.
HttpErrorCodes == {404, 503}
Documents == {<<>>, <<"doc1">>, <<"doc1", "doc2">>, <<"doc2", "doc1">>}
SearchBodies ==
    {JsonList(<<>>), JsonDict(<<>>),
     JsonDict(<< <<"response", JsonDict(<< <<"numFound", JsonList(<<>>)>> >>)>> >>)}
    \cup {JsonDict(<< <<"response", JsonDict(<< <<"docs", JsonList(d)>> >>)>> >>) :
              d \in Documents}
MetadataBodies ==
    {JsonList(<<>>), JsonDict(<<>>)}
    \cup {JsonDict(<< <<"server", JsonList(<<>>)>>, <<"files", JsonList(d)>> >>) :
              d \in Documents}
Failures ==
    {[kind |-> "transport_error", code |-> 0, body |-> JsonList(<<>>)],
     [kind |-> "undecodable", code |-> 200, body |-> JsonList(<<>>)]}
    \cup {[kind |-> "http_error", code |-> c, body |-> JsonList(<<>>)] :
              c \in HttpErrorCodes}
Responses(bodies) ==
    Failures \cup {[kind |-> "json", code |-> 200, body |-> b] : b \in bodies}

\* requests.get, raise_for_status and response.json() (lines 210-212 and
\* 231-233): each of the three can raise.
fetch_json(resp) == IF resp.kind = "json" THEN Value(resp.body) ELSE Throws

\* A handler that lets the exception through.
except_none(r) == r

\* except Exception: print and return [] (lines 214-216 and 235-237).
except_all(r) == IF r.raised THEN Value(<<>>) ELSE r

\* The search query string (lines 192-198).
ARCADE_COLLECTIONS == <<"MAME_0.139", " OR ", "MAME_2000", " OR ", "MAME_2003",
                        " OR ", "MAME_0.151", " OR ", "FinalBurn_Neo">>
search_query(query, collection) ==
    <<"(">> \o query \o <<")">> \o <<" AND collection:(">>
        \o (IF Truthy(collection) THEN CHOOSE v \in collection : TRUE
            ELSE ARCADE_COLLECTIONS)
        \o <<")">>

\* The try block of search_roms (lines 210-213):
\* data.get('response', {}).get('docs', []).
search_docs(resp) ==
    LET data == fetch_json(resp) IN
    IF data.raised THEN Throws
    ELSE LET r == DictGet(data.value, "response", JsonDict(<<>>)) IN
         IF r.raised THEN Throws
         ELSE LET d == DictGet(r.value, "docs", JsonList(<<>>)) IN
              IF d.raised THEN Throws ELSE Value(d.value.items)

\* The try block of get_item_files (lines 231-234): data.get('files', []).
item_files(resp) ==
    LET data == fetch_json(resp) IN
    IF data.raised THEN Throws
    ELSE LET f == DictGet(data.value, "files", JsonList(<<>>)) IN
         IF f.raised THEN Throws ELSE Value(f.value.items)

search_roms(resp) == except_all(search_docs(resp))

get_item_files(resp) == except_all(item_files(resp))

\* What the front ends ask for (search: lines 494 and interactive.py 84;
\* files: lines 517 and interactive.py 125).
Queries == {<<"pacman">>, <<"street", " ", "fighter">>, <<>>}
Collections == {None, Some(<<>>), Some(<<"FinalBurn_Neo_-_Arcade_Games">>)}
MaxResults == {20, 50}
Identifiers == {<<"mame-merged">>, <<"fbneo-arcade">>}

SearchRoms(query, collection, max_results, resp) ==
    /\ catalog' = [op |-> "search_roms",
                   request |-> [url |-> <<"https://archive.org", "/advancedsearch.php">>,
                                q |-> search_query(query, collection),
                                rows |-> max_results],
                   response |-> resp,
                   raised |-> search_roms(resp).raised,
                   value |-> search_roms(resp).value]
    /\ UNCHANGED << queue_vars, cli_ids, ssh_client, call, sent, ever_connected >>

GetItemFiles(identifier, resp) ==
    /\ catalog' = [op |-> "get_item_files",
                   request |-> [url |-> <<"https://archive.org", "/metadata/">>
                                           \o identifier,
                                q |-> <<>>, rows |-> 0],
                   response |-> resp,
                   raised |-> get_item_files(resp).raised,
                   value |-> get_item_files(resp).value]
    /\ UNCHANGED << queue_vars, cli_ids, ssh_client, call, sent, ever_connected >>

CatalogNext ==
    \/ \E query \in Queries, collection \in Collections,
          max_results \in MaxResults, resp \in Responses(SearchBodies) :
            SearchRoms(query, collection, max_results, resp)
    \/ \E identifier \in Identifiers, resp \in Responses(MetadataBodies) :
            GetItemFiles(identifier, resp)

CatalogSpec == Init /\ [][CatalogNext]_vars

(* ------------------ two instances on one storage file ----------------- *)

\* The long-running instance is the interactive menu: its DownloadQueue is
\* built once (interactive.py line 23) and lives in queue; its operations
\* are the actions above.  Every one-shot command-line run builds its own
\* DownloadQueue from the file (line 469), does one queue command and ends.

\* `queue add` in a one-shot run (lines 469-473).
CliAdd(in) ==
    /\ n_adds < MaxAdds
    /\ LET q == load_queue(queue_file)
       IN  queue_file' = save_queue(Append(q, new_item(in.url, in.system, in.filename)))
    /\ file_tags' = Append(file_tags, [id |-> n_adds + 1, args |-> in])
    /\ n_adds' = n_adds + 1
    /\ cli_ids' = cli_ids \cup {n_adds + 1}
    /\ lastOp' = "cli_add"
    /\ UNCHANGED << queue, tags, ssh_client, pc, pending_items, pos,
                    direct_download, tmp_files, at_start, fetch_failed,
                    only_adds, last, dispatched, dispatch_seq, call, sent,
                    ever_connected, catalog >>

\* `queue clear` in a one-shot run (lines 469, 477-480).
CliClear ==
    /\ LET q == load_queue(queue_file)
       IN  /\ queue_file' = save_queue(clear_completed(q))
           /\ file_tags' = Pick(file_tags, kept(q))
    /\ lastOp' = "cli_clear"
    /\ UNCHANGED << queue, tags, ssh_client, pc, pending_items, pos,
                    direct_download, tmp_files, n_adds, at_start,
                    fetch_failed, only_adds, last, dispatched, dispatch_seq,
                    call, sent, ever_connected, catalog, cli_ids >>

\* `queue process` in a one-shot run (lines 469, 481-489), in which every
\* transfer returns: each pending item gets the status its transfer gave
\* and the file is written after each (lines 381-382).  st gives the
\* status per pending item.
CliProcess(st) ==
    /\ LET q == load_queue(queue_file)
           p == pending_of(q)
       IN  /\ p # <<>>
           /\ DOMAIN st = 1..Len(p)
           /\ queue_file' = save_queue(
                  [i \in 1..Len(q) |->
                      IF \E k \in 1..Len(p) : p[k] = i
                      THEN [q[i] EXCEPT !.status =
                              status_of(st[CHOOSE k \in 1..Len(p) : p[k] = i])]
                      ELSE q[i]])
    /\ lastOp' = "cli_process"
    /\ UNCHANGED << queue, tags, file_tags, ssh_client, pc, pending_items, pos,
                    direct_download, tmp_files, n_adds, at_start,
                    fetch_failed, only_adds, last, dispatched, dispatch_seq,
                    call, sent, ever_connected, catalog, cli_ids >>

\* The transfer results a one-shot `queue process` can get: success or
\* not, per pending item.
CliOutcomes == UNION {[1..n -> BOOLEAN] : n \in 1..MaxAdds}

SharedNext ==
    \/ \E in \in AddInputs : Add(in)
    \/ ClearCompleted
    \/ ConnectOk
    \/ ProcessQueueBegin(TRUE)
    \/ \E e \in DirectEnvs : ProcessItemDirect(e[1], e[2])
    \/ Disconnect
    \/ \E in \in AddInputs : CliAdd(in)
    \/ CliClear
    \/ \E st \in CliOutcomes : CliProcess(st)

SharedSpec == Init /\ [][SharedNext]_vars

(* ------------------------------- claims ------------------------------- *)

Done == {"completed", "failed"}

\* The items of the queue, as (position now, position next) pairs of the
\* same add call, across one step.
SameItem(i, j) == tags[i].id = tags'[j].id

\* C1: when process_queue returns, every item that was pending when it was
\* called is completed or failed; and in no step does an item that is
\* completed or failed become pending again.
C1_PendingAllSettled ==
    /\ [](pc = "returned" =>
            /\ Len(queue) = Len(at_start)
            /\ \A i \in 1..Len(at_start) :
                 at_start[i].status = "pending" => queue[i].status \in Done)
    /\ [][\A i \in 1..Len(queue), j \in 1..Len(queue') :
            SameItem(i, j) /\ queue[i].status \in Done
                => queue'[j].status \in Done]_vars

\* process_queue has returned from a call that found two pending items and
\* left one completed and one failed.
C1_Witness ==
    /\ pc = "returned"
    /\ \E i, j \in 1..Len(at_start) :
         /\ at_start[i].status = "pending" /\ queue[i].status = "completed"
         /\ at_start[j].status = "pending" /\ queue[j].status = "failed"
    /\ ~direct_download

\* The latest transfer attempt of the current process_queue call, when
\* there is one: the item it was about.
Attempted == lastOp \in {"item", "raise"}
AttemptedItem == queue[pending_items[last.pos]]

\* A process_queue call has ended, by returning or by an exception.
CallEnded == pc \in {"returned", "raised"}

\* C2: with the direct strategy, an item whose fetch command exits non-zero
\* becomes failed, and when the call ends every pending item after it has
\* been dispatched (the latest dispatch is the last pending item).
C2_NonZeroExitDoesNotStopQueue ==
    direct_download =>
        /\ \A k \in fetch_failed : queue[pending_items[k]].status = "failed"
        /\ (CallEnded /\ fetch_failed # {}) => last.pos = Len(pending_items)

\* C3: a failed transfer attempt, an exception of the remote session
\* included, marks its item failed and does not end process_queue: the
\* loop goes on to the remaining pending items.
C3_FailureIsLocalToItem ==
    (Attempted /\ (last.raised \/ ~last.success)) =>
        /\ AttemptedItem.status = "failed"
        /\ pc # "raised"
        /\ (pc = "returned" <=> last.pos = Len(pending_items))

\* C4: with the local-then-copy strategy an item becomes completed only
\* when the download and the copy both succeeded, and failed when the copy
\* failed.
C4_CompletedOnlyIfCopied ==
    (lastOp = "item" /\ ~last.direct) =>
        /\ AttemptedItem.status = "completed"
               => (last.download = "ok" /\ last.copy = "ok")
        /\ last.copy = "failed" => AttemptedItem.status = "failed"

\* C5: with the direct strategy, an item whose fetch command returned an
\* exit status is completed exactly when that status is 0 and failed
\* exactly when it is not, whatever the directory creation returned.
C5_DirectStatusIsFetchStatus ==
    (Attempted /\ last.direct /\ last.fetch.ran /\ ~last.fetch.raised) =>
        /\ lastOp = "item"
        /\ AttemptedItem.status = "completed" <=> last.fetch.code = 0
        /\ AttemptedItem.status = "failed" <=> last.fetch.code # 0

\* The directory creation exited non-zero, the fetch exited 0 and the item
\* is completed.
C5_Witness ==
    /\ lastOp = "item" /\ last.direct
    /\ last.mkdir = Exited(1) /\ last.fetch = Exited(0)
    /\ AttemptedItem.status = "completed"
    /\ \E k \in fetch_failed : k < last.pos

\* The item sequence a storage file holds, read member by member.
FileItems(f) ==
    [i \in 1..Len(f.doc) |->
        [url |-> Member(f.doc[i], "url"),
         system |-> Member(f.doc[i], "system"),
         filename |-> Member(f.doc[i], "filename"),
         status |-> Member(f.doc[i], "status")]]

\* The latest operation changed the queue: add, a status update of
\* process_queue, clear_completed.
Mutated == lastOp \in {"add", "item", "clear", "clear_again"}

\* C6: after add, after each status update of process_queue and after
\* clear_completed, the storage file exists and holds exactly the in-memory
\* items: as many, with the same four fields each, in the same order.
C6_FileEqualsQueue ==
    Mutated =>
        /\ queue_file.exists
        /\ Len(queue_file.doc) = Len(queue)
        /\ \A i \in 1..Len(queue) :
             /\ Len(queue_file.doc[i]) = 4
             /\ FileItems(queue_file)[i] = queue[i]

\* A status update of process_queue has just been saved: the file holds a
\* failed item, a pending one after it, and equals the queue.
C6_Witness ==
    /\ lastOp = "item"
    /\ pc = "loop"
    /\ queue_file.exists
    /\ Len(queue) >= 2
    /\ \E i, j \in 1..Len(queue) :
         /\ i < j
         /\ Member(queue_file.doc[i], "status") = "failed"
         /\ Member(queue_file.doc[j], "status") = "pending"
    /\ FileItems(queue_file) = queue

\* The last path segment of the urls of AddInputs, written out.
LastPathSegment(url) ==
    CASE url = UrlRom   -> <<"rom.zip">>
      [] url = UrlQuery -> <<"game.7z">>
      [] url = UrlSlash -> <<>>

\* The file name the claim gives an add call: the one supplied or, with
\* none supplied (None or the empty string), the url's last path segment.
ExpectedFilename(args) ==
    IF args.filename \in {None, Some(<<>>)}
    THEN LastPathSegment(args.url)
    ELSE CHOOSE f \in args.filename : TRUE

\* C7: the queue lists the items in the order of their add calls, each
\* with the url and system of its call and the file name supplied or else
\* the last path segment of the url; the item just added is last and
\* pending, and after add calls only the queue is those calls, one pending
\* item each.
C7_AddOrderAndFilename ==
    /\ Len(tags) = Len(queue)
    /\ \A i \in 1..Len(queue) :
         /\ queue[i].url = tags[i].args.url
         /\ queue[i].system = tags[i].args.system
         /\ queue[i].filename = ExpectedFilename(tags[i].args)
    /\ \A i, j \in 1..Len(queue) : i < j => tags[i].id < tags[j].id
    /\ lastOp = "add" =>
         /\ tags[Len(queue)].id = n_adds
         /\ queue[Len(queue)].status = "pending"
    /\ only_adds =>
         /\ Len(queue) = n_adds
         /\ \A i \in 1..Len(queue) :
              tags[i].id = i /\ queue[i].status = "pending"

\* Three add calls and nothing else: the url of the spec's scenario with
\* no file name, a url with a query with an empty file name, a url with a
\* supplied file name.
C7_Witness ==
    /\ only_adds
    /\ lastOp = "add"
    /\ Len(queue) = 3
    /\ queue[1].url = UrlRom /\ queue[1].filename = <<"rom.zip">>
    /\ queue[2].url = UrlQuery /\ queue[2].filename = <<"game.7z">>
    /\ queue[3].filename = <<"custom.zip">>

\* q without its completed items, built from the left.
RECURSIVE WithoutCompleted(_)
WithoutCompleted(q) ==
    IF q = <<>> THEN <<>>
    ELSE IF Head(q).status = "completed" THEN WithoutCompleted(Tail(q))
    ELSE <<Head(q)>> \o WithoutCompleted(Tail(q))

\* The step is a clear_completed call.
ClearStep == pc = "idle" /\ lastOp' \in {"clear", "clear_again"}

\* C8: clear_completed leaves the subsequence of the pending and failed
\* items in their order; every pending or failed item is still there,
\* unchanged, and no completed item is.
C8_ClearRemovesExactlyCompleted ==
    [][ClearStep =>
        /\ queue' = WithoutCompleted(queue)
        /\ \A i \in 1..Len(queue) :
             queue[i].status # "completed"
                 <=> \E j \in 1..Len(queue') : SameItem(i, j) /\ queue'[j] = queue[i]
        /\ \A j \in 1..Len(queue') : queue'[j].status # "completed"]_vars

\* clear_completed has removed an item and kept a failed and a pending one.
C8_Witness ==
    /\ lastOp = "clear"
    /\ Len(queue) < n_adds
    /\ \E i, j \in 1..Len(queue) :
         queue[i].status = "failed" /\ queue[j].status = "pending"

\* C9: a clear_completed call that follows a clear_completed call changes
\* neither the queue nor the storage file.
C9_ClearIdempotent ==
    [][(ClearStep /\ lastOp \in {"clear", "clear_again"}) =>
        /\ queue' = queue
        /\ queue_file' = queue_file]_vars

\* clear_completed has been called twice in a row on a queue that had
\* completed items, and items are left.
C9_Witness ==
    /\ lastOp = "clear_again"
    /\ Len(queue) < n_adds
    /\ queue # <<>>
    /\ queue_file = save_queue(queue)

\* C10: only an iteration of process_queue changes the status of an item
\* of the queue: add and clear_completed leave the status of every item
\* they keep, and list_queue leaves the queue and the storage file as they
\* are.
C10_StatusChangedOnlyByProcess ==
    [][/\ (\E i \in 1..Len(queue), j \in 1..Len(queue') :
              SameItem(i, j) /\ queue'[j].status # queue[i].status)
          => (pc = "loop" /\ lastOp' = "item")
       /\ lastOp' = "add" =>
            \A i \in 1..Len(queue) : queue'[i].status = queue[i].status
       /\ lastOp' = "list" => (queue' = queue /\ queue_file' = queue_file)]_vars

\* add has appended to a queue that holds a failed and a completed item.
C10_Witness ==
    /\ lastOp = "add"
    /\ Len(queue) = 3
    /\ queue[1].status = "failed"
    /\ queue[2].status = "completed"
    /\ queue[3].status = "pending"

\* C11: the storage file round-trips the queue. Loading what save_queue
\* writes gives back the same items, with the same four fields and values,
\* in the same order; a new DownloadQueue made when the file is absent is
\* empty, and one made from an existing file holds exactly the queue that
\* was last saved.
C11_PersistenceRoundTrip ==
    /\ [](/\ load_queue(save_queue(queue)) = queue
          /\ load_queue(NoFile) = <<>>)
    /\ [][lastOp' = "restart" =>
            queue' = IF queue_file.exists THEN queue ELSE <<>>]_vars

\* A new run has loaded a file that holds a completed, a failed and a
\* pending item.
C11_Witness ==
    /\ lastOp = "restart"
    /\ queue_file.exists
    /\ \A st \in Statuses : \E i \in 1..Len(queue) : queue[i].status = st
    /\ queue = JsonLoad(queue_file.doc)

\* C12: a session opened by a successful connect() is disconnected before
\* the front-end operation that opened it ends, whether process_queue
\* returned or an exception left it.
C12_SessionClosedWhenOperationEnds ==
    pc \in {"idle", "raised"} => ssh_client # "connected"

\* C13: after a connect() that failed, the session holds no connection
\* handle: it is in the state of a session on which connect was never
\* called.
C13_FailedConnectLeavesNoHandle ==
    pc = "connect_failed" => ssh_client = "None"

\* C14: execute_command on a session that never had a successful connect
\* (never connected, or only failed attempts) raises the connection error
\* of its guard, and no command runs on the appliance.
C14_ExecuteWithoutConnectRaisesConnectionError ==
    (call.op = "execute" /\ ~ever_connected) =>
        /\ call.raised
        /\ call.error = "ConnectionError"
        /\ sent = <<>>

\* C15: disconnect() never raises, in any state of the session; on a
\* session that never connected it changes nothing; it leaves the session
\* not connected, runs nothing on the appliance, and a second call in a row
\* leaves the session as the first one did.
C15_DisconnectIdempotentAndSafe ==
    [][call'.op = "disconnect" =>
          /\ ~call'.raised
          /\ ssh_client' # "connected"
          /\ (ssh_client = "None" => ssh_client' = "None")
          /\ (call.op = "disconnect" => ssh_client' = ssh_client)
          /\ sent' = sent
          /\ ever_connected' = ever_connected]_vars

\* A session that connected and ran a command has been disconnected twice
\* in a row.
C15_Witness ==
    /\ call.op = "disconnect"
    /\ call.again
    /\ ssh_client = "closed"
    /\ sent # <<>>

\* process_queue has been invoked by the front-end operation in progress.
InProcessQueue == pc \in {"loop", "returned", "raised"}

\* C16: when connect() fails at the start of queue processing, the
\* operation is aborted: the front end only reports and returns,
\* process_queue is not invoked, no item is handed to a transfer, no status
\* changes and the storage file is not written. process_queue only ever
\* runs on a connected session.
C16_ConnectFailureAbortsProcessing ==
    /\ []((pc = "connected" \/ InProcessQueue) => ssh_client = "connected")
    /\ [][(pc = "connect_failed" \/ lastOp' = "connect_failed") =>
            /\ ~InProcessQueue'
            /\ pc' \in {"connect_failed", "idle"}
            /\ queue' = queue
            /\ queue_file' = queue_file
            /\ dispatched' = dispatched]_vars

\* Queue processing was aborted on a failed connect, with a pending item
\* in the queue.
C16_Witness ==
    /\ lastOp = "aborted"
    /\ pc = "idle"
    /\ \E i \in 1..Len(queue) : queue[i].status = "pending"
    /\ queue_file.exists

\* A transfer call is made for an item in this step.
DispatchStep == Len(dispatch_seq') = Len(dispatch_seq) + 1

\* The item handed to a transfer in a dispatch step.
DispatchedItem == dispatch_seq'[Len(dispatch_seq')]

\* C17: across any sequence of process_queue calls an item is handed to a
\* transfer at most once: the item of a transfer call has never been handed
\* to one before, and is pending when the call is made.
C17_DispatchedAtMostOnce ==
    [][DispatchStep =>
          /\ DispatchedItem \notin dispatched
          /\ queue[pending_items[pos]].status = "pending"]_vars

\* The catalog request of the latest call did not give a usable answer:
\* transport error, HTTP error status, or a body that is not JSON.
RequestFailed ==
    catalog.response.kind \in {"transport_error", "http_error", "undecodable"}

\* C18: search_roms and get_item_files raise nothing, and return the empty
\* sequence when the HTTP request fails with a transport error, with an
\* error status, or with a response that cannot be decoded.
C18_CatalogFailureGivesEmptyResult ==
    catalog.op \in {"search_roms", "get_item_files"} =>
        /\ ~catalog.raised
        /\ (RequestFailed => catalog.value = <<>>)

\* A search was answered with an HTTP error status.
C18_Witness ==
    /\ catalog.op = "search_roms"
    /\ catalog.response.kind = "http_error"
    /\ catalog.value = <<>>

\* Positions in the queue of the items process_queue has finished with:
\* the first pos - 1 of the items that were pending when it was called.
Processed ==
    {pending_of(at_start)[k] : k \in 1..(pos - 1)}

\* C19: process_queue persists the queue after every item. Wherever the
\* call stands (between two items, interrupted there, left by an exception
\* or returned), the storage file holds every item of the queue in order,
\* with the final status of each item already processed and, for every
\* other item, what it held when the call began: pending for the items
\* still to be processed.
C19_FileCurrentAfterEveryItem ==
    (InProcessQueue \/ pc = "interrupted") =>
        /\ (pos > 1 => queue_file.exists)
        /\ LET stored == load_queue(queue_file) IN
            /\ Len(stored) = Len(at_start)
            /\ \A i \in 1..Len(at_start) :
                  IF i \in Processed
                  THEN /\ stored[i].status \in Done
                       /\ stored[i] = queue[i]
                       /\ stored[i] = [at_start[i] EXCEPT !.status = stored[i].status]
                  ELSE /\ stored[i] = at_start[i]
                       /\ at_start[i].status = "pending" <=>
                              \E k \in pos..Len(pending_items) : pending_items[k] = i

\* The call was interrupted between two items, after an item was
\* completed and one failed, with an item still to be processed.
C19_Witness ==
    /\ pc = "interrupted"
    /\ pos <= Len(pending_items)
    /\ \E i, j \in Processed :
          /\ FileItems(queue_file)[i].status = "completed"
          /\ FileItems(queue_file)[j].status = "failed"
    /\ FileItems(queue_file)[pending_items[pos]].status = "pending"

\* Queue positions of the items handed to a transfer in this call, in the
\* order of the transfer calls.
DispatchedPositions ==
    [k \in 1..Len(dispatch_seq) |->
        CHOOSE i \in 1..Len(tags) : tags[i].id = dispatch_seq[k]]

\* Queue positions of the items that were pending when the call began.
PendingAtStart == {i \in 1..Len(at_start) : at_start[i].status = "pending"}

LocalStep == DispatchStep /\ ~direct_download

\* The local temporary file of the item processed in this step.
LocalPath == queue[pending_items[pos]].filename

\* C21: with the local-then-copy strategy, once the local download of an
\* item has succeeded, its temporary file is gone when the processing of
\* the item ends, whatever the directory creation and the copy did.
C21_TempFileDeletedAfterDownload ==
    [][(LocalStep /\ last'.download = "ok") => LocalPath \notin tmp_files']_vars

\* C22: with the local-then-copy strategy, when the local download of an
\* item fails nothing is done on the session for that item (no directory
\* creation, no copy), no exception leaves the loop and the item is set to
\* failed.
C22_DownloadFailureNoRemoteInteraction ==
    [][(LocalStep /\ last'.download \in DownloadOutcomes \ {"ok"}) =>
          /\ last'.mkdir = NotRun
          /\ last'.fetch = NotRun
          /\ last'.copy = "not_run"
          /\ ~last'.raised
          /\ queue'[pending_items[pos]].status = "failed"]_vars

\* The local download of an item failed after part of the file was
\* written, and the item is failed.
C22_Witness ==
    /\ lastOp = "item"
    /\ ~direct_download
    /\ last.download = "failed_partial"
    /\ last.pos = pos - 1
    /\ queue[pending_items[last.pos]].status = "failed"

\* C23: with the local-then-copy strategy, when the local download of an
\* item fails, at whatever point, no temporary file of that item is on the
\* local disk after the item has been processed.
C23_NoTempFileAfterFailedDownload ==
    [][(LocalStep /\ last'.download \in DownloadOutcomes \ {"ok"}) =>
          LocalPath \notin tmp_files']_vars

\* C24: a failure of progress reporting never makes the item failed. When
\* nothing but progress reporting goes wrong in the transfer of an item
\* (the download data arrives, the directory command returns, the copy is
\* taken), the item is set to completed.
C24_ProgressFailureNotItemFailure ==
    [][(/\ LocalStep
        /\ last'.download \in {"ok", "progress_failed"}
        /\ ~last'.mkdir.raised
        /\ last'.copy \in {"ok", "progress_failed", "not_run"}) =>
          queue'[pending_items[pos]].status = "completed"]_vars

\* C25: process_queue changes nothing but the status of items that were
\* pending when it was called. During and after the call the queue has the
\* same items in the same order, each with the url, system and filename it
\* had, and every item that was completed or failed keeps its status. A
\* call that finds no pending item returns at once: it writes nothing to
\* the storage file and runs nothing on the session.
C25_ProcessQueueFrame ==
    /\ []((InProcessQueue \/ pc = "interrupted") =>
            /\ Len(queue) = Len(at_start)
            /\ \A i \in 1..Len(at_start) :
                  /\ queue[i].url = at_start[i].url
                  /\ queue[i].system = at_start[i].system
                  /\ queue[i].filename = at_start[i].filename
                  /\ (at_start[i].status # "pending" =>
                          queue[i].status = at_start[i].status))
    /\ [][(InProcessQueue /\ InProcessQueue') => tags' = tags]_vars
    /\ [][(lastOp' = "begin" /\ \A i \in 1..Len(queue) : queue[i].status # "pending") =>
            /\ pc' = "returned"
            /\ queue' = queue
            /\ queue_file' = queue_file
            /\ last' = NoAttempt
            /\ dispatch_seq' = <<>>
            /\ dispatched' = dispatched]_vars
    /\ []((pc = "returned" /\ PendingAtStart = {}) =>
            (queue = at_start /\ last = NoAttempt /\ dispatch_seq = <<>>))

\* A call has returned after processing an item, on a queue that held a
\* completed and a failed item when the call began.
C25_Witness ==
    /\ pc = "returned"
    /\ \E i, j, k \in 1..Len(at_start) :
          /\ at_start[i].status = "completed"
          /\ at_start[j].status = "failed"
          /\ at_start[k].status = "pending"
          /\ queue[k].status \in Done

\* Ids of the items in the storage file.
FileIds == {file_tags[i].id : i \in 1..Len(file_tags)}

\* The item with this id is completed in the storage file.
CompletedInFile(id) ==
    \E i \in 1..Len(file_tags) :
        file_tags[i].id = id /\ FileItems(queue_file)[i].status = "completed"

\* The step is a mutating operation of a one-shot run, or of the
\* long-running instance.
CliStep == lastOp' \in {"cli_add", "cli_clear", "cli_process"}
MenuStep == lastOp' \in {"add", "clear", "clear_again", "item"}

\* The step is a clear_completed that takes this completed item out.
Cleared(id) ==
    lastOp' \in {"clear", "clear_again", "cli_clear"} /\ CompletedInFile(id)

\* C26: with two queue instances on one storage file, an item that add
\* stored through one instance is never dropped from the file by a later
\* add, clear_completed or process_queue of the other instance (other than
\* a clear_completed taking out the completed item).
C26_SharedFileKeepsOtherInstancesItems ==
    [][\A id \in FileIds \ FileIds' :
          \/ Cleared(id)
          \/ (MenuStep /\ id \notin cli_ids)
          \/ (CliStep /\ id \in cli_ids)]_vars
====
